---- MODULE Spec2Model ----
(***************************************************************************)
(* Model of the MCP-AutoPRX unified server: webhook ingestion              *)
(* (github_webhook, store_event, process_event_notifications), the bounded *)
(* event log kept in github_events.json, and the CI query tools of         *)
(* tools/ci_monitor.py reading their own EVENTS_FILE.                      *)
(***************************************************************************)
EXTENDS Integers, Sequences, FiniteSets, TLC

\* ---------------------------------------------------------------- bounds
MaxRequests == 2      \* webhook requests made in one behaviour
Preload == 99         \* ping deliveries ingested before the first state of
                      \* the specification that starts from a loaded log
MaxAlerts == 3        \* pending send_slack_alert tasks on the event loop
MaxLogLen == 3        \* longest log the query specification starts from
MaxNotified == 1      \* webhook requests made in one behaviour of the
                      \* specification of the notifications
Pinged == 1           \* ping deliveries ingested before its first state

\* ------------------------------------------------------ program constants
LogCapacity == 100    \* events[-100:]
DefaultLimit == 10    \* get_recent_actions_events(limit=10)

None == "None"
\* what datetime.now(timezone.utc) can give: the clock may stand still or be
\* set back between two deliveries
Timestamps == {1, 2}
\* deliveries that all arrive within one tick of the clock
SameTick == {1}
Tasks == {"t1", "t2"}

\* -------------------------------------------------------------- sequences
Min(a, b) == IF a < b THEN a ELSE b

\* the first n elements instead of the last n
FirstN(s, n) == SubSeq(s, 1, Min(n, Len(s)))

\* Python's seq[-n:] for n >= 1: the last n elements, all of them when the
\* sequence is shorter.
LastN(s, n) == SubSeq(s, Len(s) - Min(n, Len(s)) + 1, Len(s))

\* Python's seq[-limit:] for any integer limit (events[-limit:]):
\* -0 is 0, so limit = 0 gives the whole list; a negative limit -k gives
\* seq[k:].
SliceFromNeg(s, limit) ==
    IF limit = 0 THEN s
    ELSE IF limit > 0 THEN LastN(s, limit)
    ELSE SubSeq(s, Min(-limit, Len(s)) + 1, Len(s))

\* ------------------------------------------------------------- the payload
Repo == "org/repo"

\* updated_at strings have a fixed ISO-8601 layout; they are modelled as
\* digit tuples and compared the way Python compares strings.
RECURSIVE StrGreater(_, _)
StrGreater(a, b) ==
    IF a = <<>> THEN FALSE
    ELSE IF b = <<>> THEN TRUE
    ELSE IF Head(a) # Head(b) THEN Head(a) > Head(b)
    ELSE StrGreater(Tail(a), Tail(b))

U1 == <<0, 1>>
U2 == <<0, 2>>
U3 == <<1, 0>>

BuildDoc == "Build documentation"
BuildPR == "Build PR Documentation"
UploadPR == "Upload PR Documentation"
Deploy == "Deploy"

\* the workflow_run object of a payload
Run(name, conclusion, upd, num) ==
    [name |-> name,
     status |-> IF conclusion = None THEN "in_progress" ELSE "completed",
     conclusion |-> conclusion,
     run_number |-> num,
     updated_at |-> upd,
     html_url |-> num]

\* a decoded webhook payload; an optional member is <<>> when absent and
\* <<x>> when present
Payload(run, action) ==
    [repository |-> <<[full_name |-> Repo]>>,
     sender |-> <<[login |-> "octocat"]>>,
     action |-> action,
     workflow_run |-> run,
     check_run |-> <<>>]

PingPayload == Payload(<<>>, None)
PushPayload == Payload(<<>>, None)
FailPayload == Payload(<<Run(BuildDoc, "failure", U1, 1)>>, "completed")
OkPayload == Payload(<<Run(BuildDoc, "success", U2, 2)>>, "completed")

\* X-GitHub-Event header and decoded payload of the requests the model sends
PushDelivery == [event_type |-> "push", data |-> PushPayload]
Deliveries ==
    {[event_type |-> "workflow_run", data |-> FailPayload],
     [event_type |-> "workflow_run", data |-> OkPayload],
     PushDelivery}

\* the JSON value []
EmptyArray == [items |-> <<>>]
\* a decoded value is a dict: it has the get method the handler calls
IsObject(value) == "items" \notin DOMAIN value

\* ---------------------------------------------------------- the request
\* Body of a webhook request.  "empty" is a body of no bytes, "json" the
\* JSON text of a payload, "form" a urlencoded form whose payload field holds
\* that JSON text, "form_bad" a form whose payload field is not JSON,
\* "form_nopayload" a form without a payload field (such a body is not JSON
\* either), "json_array" the JSON text of an array.
Body(kind, data) ==
    [kind |-> kind,
     payload |-> IF kind \in {"json", "form"} THEN <<data>>
                 ELSE IF kind = "json_array" THEN <<EmptyArray>> ELSE <<>>]

BodyKinds ==
    {"empty", "json", "form", "form_bad", "form_nopayload", "json_array"}
ContentTypes == {"application/json", "application/x-www-form-urlencoded", ""}
Signatures == {"valid", "missing", "invalid"}

\* a request: Content-Type, X-GitHub-Event, x-hub-signature-256 (as the
\* outcome of comparing it with the expected digest) and the body
Request(c, g, k, d) ==
    [content_type |-> c, event_type |-> d.event_type, signature |-> g,
     body |-> Body(k, d.data)]

\* every delivery as JSON and as a form, every content type with every
\* kind of body, every outcome of the signature comparison
Requests ==
    {Request(c, "valid", k, d) :
        c \in ContentTypes, k \in {"json", "form"}, d \in Deliveries}
    \cup {Request(c, "valid", k, PushDelivery) :
            c \in ContentTypes, k \in BodyKinds}
    \cup {Request("application/json", g, "json", PushDelivery) :
            g \in Signatures}

\* request.json(): the decoded payload, or JSONDecodeError
JsonDecode(body) ==
    IF body.kind \in {"json", "json_array"}
    THEN [ok |-> TRUE, data |-> body.payload]
    ELSE [ok |-> FALSE, data |-> <<>>]

\* form_data.get("payload"): "absent", "invalid" (present, not JSON) or
\* "valid"
FormPayload(body) ==
    IF body.kind = "form" THEN "valid"
    ELSE IF body.kind = "form_bad" THEN "invalid"
    ELSE "absent"

Parsed(d) == [ok |-> TRUE, data |-> <<d>>, message |-> "", detail |-> FALSE]
\* an error result; detail says whether it carries the decoder's error text
ParseError(m, detail) ==
    [ok |-> FALSE, data |-> <<>>, message |-> m, detail |-> detail]

\* a dispatch that does not try the form for a content type it does not
\* know
DecodeBodyJsonOnly(content_type, body) ==
    IF content_type = "application/json"
    THEN IF JsonDecode(body).ok
         THEN Parsed(body.payload[1])
         ELSE ParseError("Invalid JSON", TRUE)
    ELSE IF content_type = "application/x-www-form-urlencoded"
    THEN IF FormPayload(body) = "valid" THEN Parsed(body.payload[1])
         ELSE IF FormPayload(body) = "invalid"
         THEN ParseError("Invalid JSON in form payload", TRUE)
         ELSE ParseError("No payload in form data", FALSE)
    ELSE IF JsonDecode(body).ok THEN Parsed(body.payload[1])
         ELSE ParseError("Could not parse payload", FALSE)

\* the content-type dispatch of github_webhook
DecodeBody(content_type, body) ==
    IF content_type = "application/json"
    THEN IF JsonDecode(body).ok
         THEN Parsed(body.payload[1])
         ELSE ParseError("Invalid JSON", TRUE)
    ELSE IF content_type = "application/x-www-form-urlencoded"
    THEN IF FormPayload(body) = "valid" THEN Parsed(body.payload[1])
         ELSE IF FormPayload(body) = "invalid"
         THEN ParseError("Invalid JSON in form payload", TRUE)
         ELSE ParseError("No payload in form data", FALSE)
    ELSE IF JsonDecode(body).ok THEN Parsed(body.payload[1])
         ELSE IF FormPayload(body) = "valid" THEN Parsed(body.payload[1])
         ELSE IF FormPayload(body) = "invalid"
         THEN ParseError("Could not parse payload", TRUE)
         ELSE ParseError("Could not parse payload", FALSE)

\* a check that compares the header when there is one and lets a request
\* without the header pass
SignatureRejectedWhenPresent(secretSet, signature) ==
    secretSet /\ signature = "invalid"

\* the signature check: HTTPException(401) is raised inside the handler's
\* try block
SignatureRejected(secretSet, signature) ==
    secretSet /\ signature # "valid"

\* ------------------------------------------------------------ responses
NoResponse ==
    [status |-> "none", event_type |-> "", message |-> "", detail |-> FALSE]
Received(event_type) ==
    [status |-> "received", event_type |-> event_type, message |-> "",
     detail |-> FALSE]
\* an empty body answered as a payload that could not be parsed
EmptyRefused ==
    [status |-> "error", event_type |-> "", message |-> "Empty body",
     detail |-> FALSE]

EmptyReceived ==
    [status |-> "received", event_type |-> "empty", message |-> "Empty body",
     detail |-> FALSE]
\* a handler that raises for a body it cannot parse
ErrorRaised(m, detail) ==
    [status |-> "http400", event_type |-> "", message |-> "", detail |-> TRUE]

\* the dict returned for a body that could not be parsed
ErrorBody(m, detail) ==
    [status |-> "error", event_type |-> "", message |-> m, detail |-> detail]
\* raise HTTPException(status_code=400, ...) from the handler's except clause
Http400 ==
    [status |-> "http400", event_type |-> "", message |-> "", detail |-> TRUE]
\* the client went away before the handler read the body
Aborted ==
    [status |-> "aborted", event_type |-> "", message |-> "", detail |-> FALSE]

\* ------------------------------------------------------------ the log file
AbsentFile == [exists |-> FALSE, valid |-> FALSE, events |-> <<>>]
\* a file holding json.dump(events)
JsonFile(events) == [exists |-> TRUE, valid |-> TRUE, events |-> events]
\* a file holding only the beginning of a dump: the event records it holds
\* in full are kept, the text as a whole does not parse
TornFile(events) == [exists |-> TRUE, valid |-> FALSE, events |-> events]

\* what an interrupted dump of s can leave behind: nothing, every record
\* but the last, or every record without the closing bracket
Prefixes(s) == {SubSeq(s, 1, k) : k \in {0, Len(s) - 1, Len(s)} \cap 0..Len(s)}

ServerLogPath(dir) ==
    IF dir = "webhook_server"
    THEN "repo/webhook_server/github_events.json"
    ELSE "repo/github_events.json"
MonitorLogPath == "repo/webhook_server/github_events.json"
Paths == {"repo/github_events.json", "repo/webhook_server/github_events.json"}

\* the record store_event builds
MakeEvent(event_type, data, ts) ==
    [timestamp |-> ts,
     event_type |-> event_type,
     action |-> data.action,
     workflow_run |-> data.workflow_run,
     check_run |-> data.check_run,
     repository |-> IF data.repository # <<>>
                    THEN data.repository[1].full_name ELSE None,
     sender |-> IF data.sender # <<>> THEN data.sender[1].login ELSE None,
     data |-> data]

\* the append without the cut to the last 100
AppendUncut(events, event) == Append(events, event)

\* events.append(event); events = events[-100:]
AppendEvent(events, event) == LastN(Append(events, event), LogCapacity)

Filler == MakeEvent("ping", PingPayload, 2)

\* n ping deliveries
Pings(n) == [i \in 1..n |-> Filler]

\* the log after n ping deliveries into an absent log
Ingested(n) == LastN(Pings(n), LogCapacity)

\* a load that takes a file it cannot parse for an empty log
LoadLogLenient(file) ==
    IF file.valid
    THEN [ok |-> TRUE, events |-> file.events]
    ELSE [ok |-> TRUE, events |-> <<>>]

\* reading the log: open(EVENTS_FILE, 'r'); json.load(f).  A file that does
\* not parse raises JSONDecodeError.
LoadLog(file) ==
    IF file.valid
    THEN [ok |-> TRUE, events |-> file.events]
    ELSE [ok |-> FALSE, events |-> <<>>]

\* a load that opens the file without asking whether it exists
LoadUnguarded(file) == LoadLog(file)

\* "events = []; if EVENTS_FILE.exists(): ... events = json.load(f)"
LoadOrEmpty(file) ==
    IF file.exists THEN LoadLog(file) ELSE [ok |-> TRUE, events |-> <<>>]

\* ------------------------------------------------- the query tools' scan
KnownDescription(name) ==
    CASE name = BuildDoc -> "Main branch documentation build"
      [] name = BuildPR -> "Pull request documentation build"
      [] name = UploadPR -> "PR documentation upload to Hugging Face"
      [] OTHER -> "Unknown workflow"

\* a documentation filter that lets every workflow through
EveryWorkflow == {BuildDoc, BuildPR, UploadPR, Deploy}

DocWorkflows == {BuildDoc, BuildPR, UploadPR}

HasRun(e) == e.workflow_run # <<>>
RunOf(e) == e.workflow_run[1]

\* run.get(key): None for a key the object does not have
Field(run, key) == IF key \in DOMAIN run THEN run[key] ELSE None

\* the dict entry the scan stores for a run
Summary(run) ==
    [name |-> run.name,
     status |-> run.status,
     conclusion |-> run.conclusion,
     run_number |-> run.run_number,
     updated_at |-> run.updated_at,
     html_url |-> run.html_url,
     description |-> KnownDescription(run.name)]

\* [x for x in s if Keep(x)]
RECURSIVE SelectEvents(_, _, _)
\* filters of which the one of get_failed_workflows forgets the conclusion
MatchesAnyConclusion(mode, arg, e) ==
    CASE mode = "all" ->
            HasRun(e) /\ (arg # None => Field(RunOf(e), "name") = arg)
      [] mode = "docs" ->
            HasRun(e) /\ Field(RunOf(e), "name") \in DocWorkflows
      [] mode = "failed" -> HasRun(e)
      [] OTHER -> FALSE

\* the events a query mode scans; arg is the workflow_name argument of
\* get_workflow_status (None when not given)
Matches(mode, arg, e) ==
    CASE mode = "all" ->
            HasRun(e) /\ (arg # None => Field(RunOf(e), "name") = arg)
      [] mode = "docs" ->
            HasRun(e) /\ Field(RunOf(e), "name") \in DocWorkflows
      [] mode = "failed" ->
            HasRun(e) /\ Field(RunOf(e), "conclusion") = "failure"
      [] OTHER -> FALSE
SelectEvents(mode, arg, s) ==
    IF s = <<>> THEN <<>>
    ELSE (IF Matches(mode, arg, Head(s)) THEN <<Head(s)>> ELSE <<>>)
         \o SelectEvents(mode, arg, Tail(s))

\* position of name's entry in the dict (insertion order), 0 when absent
RECURSIVE PositionOf(_, _, _)
PositionOf(workflows, name, i) ==
    IF i > Len(workflows) THEN 0
    ELSE IF workflows[i].name = name THEN i
    ELSE PositionOf(workflows, name, i + 1)

\* a scan in which every later event of the log replaces the entry
LogOrderWins(run, kept) == TRUE

\* a scan in which a run replaces the entry unless it is older
NotOlder(run, kept) == ~StrGreater(kept.updated_at, run.updated_at)

\* run["updated_at"] > workflows[name]["updated_at"]
Newer(run, kept) == StrGreater(run.updated_at, kept.updated_at)

\* a hook that is called for failed runs only
HookCallsFailureOnly(mode, e) ==
    IF RunOf(e).conclusion = "failure"
    THEN <<[name |-> RunOf(e).name, status |-> "failure",
            repo |-> e.repository]>>
    ELSE <<>>

\* the on_ci_event_detected call the scan makes when it stores an entry:
\* get_failed_workflows always passes "failure", the other two tools call
\* only for a conclusion of success or failure
HookCalls(mode, e) ==
    IF mode = "failed"
    THEN <<[name |-> RunOf(e).name, status |-> "failure",
            repo |-> e.repository]>>
    ELSE IF Field(RunOf(e), "conclusion") \in {"success", "failure"}
    THEN <<[name |-> RunOf(e).name, status |-> RunOf(e).conclusion,
            repo |-> e.repository]>>
    ELSE <<>>

\* an iteration that moves a replaced entry to the end of the dict
ScanStepReinserts(mode, acc, e) ==
    LET run == RunOf(e)
        at == PositionOf(acc.workflows, run.name, 1)
    IN  IF at = 0
        THEN [workflows |-> Append(acc.workflows, Summary(run)),
              calls |-> acc.calls \o HookCalls(mode, e)]
        ELSE IF Newer(run, acc.workflows[at])
        THEN [workflows |->
                Append(SelectSeq(acc.workflows,
                                 LAMBDA w : w.name # run.name), Summary(run)),
              calls |-> acc.calls \o HookCalls(mode, e)]
        ELSE acc

\* one iteration of "for event in workflow_events"
ScanStep(mode, acc, e) ==
    LET run == RunOf(e)
        at == PositionOf(acc.workflows, run.name, 1)
    IN  IF at = 0
        THEN [workflows |-> Append(acc.workflows, Summary(run)),
              calls |-> acc.calls \o HookCalls(mode, e)]
        ELSE IF Newer(run, acc.workflows[at])
        THEN [workflows |-> [acc.workflows EXCEPT ![at] = Summary(run)],
              calls |-> acc.calls \o HookCalls(mode, e)]
        ELSE acc

\* the iteration raises KeyError: run["name"] of a run without a name,
\* run["updated_at"] in the comparison with the entry of the name, or one of
\* run["status"], run["run_number"], run["updated_at"], run["html_url"] when
\* the entry is built
KeyErrorAt(acc, e) ==
    LET run == RunOf(e)
    IN  IF "name" \notin DOMAIN run THEN TRUE
        ELSE IF PositionOf(acc.workflows, run.name, 1) = 0
        THEN ~({"status", "run_number", "updated_at", "html_url"}
                    \subseteq DOMAIN run)
        ELSE IF "updated_at" \notin DOMAIN run THEN TRUE
        ELSE /\ Newer(run, acc.workflows[PositionOf(acc.workflows,
                                                    run.name, 1)])
             /\ ~({"status", "run_number", "html_url"} \subseteq DOMAIN run)

\* "for event in workflow_events": the entries stored and the calls made
\* when the loop ends or an iteration raises
RECURSIVE Scan(_, _, _)
Scan(mode, acc, s) ==
    IF s = <<>> THEN acc
    ELSE IF KeyErrorAt(acc, Head(s)) THEN acc
    ELSE Scan(mode, ScanStep(mode, acc, Head(s)), Tail(s))

\* an iteration of the loop raises KeyError
RECURSIVE ScanRaises(_, _, _)
ScanRaises(mode, acc, s) ==
    IF s = <<>> THEN FALSE
    ELSE IF KeyErrorAt(acc, Head(s)) THEN TRUE
    ELSE ScanRaises(mode, ScanStep(mode, acc, Head(s)), Tail(s))

\* on_ci_event_detected: an alert task is created for failure and success
AlertsFor(calls) == SelectSeq(calls, LAMBDA c : c.status \in {"failure", "success"})

\* results of the query tools
ResultList(items) == [kind |-> "list", items |-> items]
NoEventsYet == [kind |-> "message", items |-> <<>>]
DecodeFailure == [kind |-> "JSONDecodeError", items |-> <<>>]
KeyFailure == [kind |-> "KeyError", items |-> <<>>]
NoResult == [kind |-> "none", items |-> <<>>]

Outcome(result, calls) == [result |-> result, calls |-> calls]

\* get_recent_actions_events(limit)
GetRecentActionsEvents(file, limit) ==
    IF ~file.exists THEN Outcome(ResultList(<<>>), <<>>)
    ELSE IF ~LoadLog(file).ok THEN Outcome(DecodeFailure, <<>>)
    ELSE Outcome(ResultList(SliceFromNeg(LoadLog(file).events, limit)), <<>>)

\* a query without the "if not events" test
WorkflowQueryEmptyUnchecked(mode, arg, file) ==
    IF ~file.exists THEN Outcome(NoEventsYet, <<>>)
    ELSE IF ~LoadLog(file).ok THEN Outcome(DecodeFailure, <<>>)
    ELSE LET acc == Scan(mode, [workflows |-> <<>>, calls |-> <<>>],
                         SelectEvents(mode, arg, LoadLog(file).events))
         IN  Outcome(ResultList(acc.workflows), acc.calls)

\* a query that answers "no events yet" when its filter lets nothing through
WorkflowQuerySentinelOnNoMatch(mode, arg, file) ==
    IF ~file.exists THEN Outcome(NoEventsYet, <<>>)
    ELSE IF ~LoadLog(file).ok THEN Outcome(DecodeFailure, <<>>)
    ELSE IF SelectEvents(mode, arg, LoadLog(file).events) = <<>>
    THEN Outcome(NoEventsYet, <<>>)
    ELSE LET acc == Scan(mode, [workflows |-> <<>>, calls |-> <<>>],
                         SelectEvents(mode, arg, LoadLog(file).events))
         IN  Outcome(ResultList(acc.workflows), acc.calls)

\* get_workflow_status(workflow_name), get_documentation_workflow_status()
\* and get_failed_workflows() are the same function up to the filter and
\* the notification rule
WorkflowQuery(mode, arg, file) ==
    IF ~file.exists THEN Outcome(NoEventsYet, <<>>)
    ELSE IF ~LoadLog(file).ok THEN Outcome(DecodeFailure, <<>>)
    ELSE IF LoadLog(file).events = <<>> THEN Outcome(NoEventsYet, <<>>)
    ELSE LET acc == Scan(mode, [workflows |-> <<>>, calls |-> <<>>],
                         SelectEvents(mode, arg, LoadLog(file).events))
         IN  IF ScanRaises(mode, [workflows |-> <<>>, calls |-> <<>>],
                           SelectEvents(mode, arg, LoadLog(file).events))
             THEN Outcome(KeyFailure, acc.calls)
             ELSE Outcome(ResultList(acc.workflows), acc.calls)

GetWorkflowStatus(file, workflow_name) ==
    WorkflowQuery("all", workflow_name, file)
GetDocumentationWorkflowStatus(file) == WorkflowQuery("docs", None, file)
GetFailedWorkflows(file) == WorkflowQuery("failed", None, file)

\* ------------------------------------------------------------- the sinks
\* what requests.post(webhook_url, ..., timeout=10) can do
SlackOutcomes == {"200", "non2xx", "timeout", "connection"}
\* what the SMTP conversation can do
GmailOutcomes == {"sent", "auth", "timeout", "connection"}

SinkResult(attempts, text, raised) ==
    [attempts |-> attempts, text |-> text, raised |-> raised]

\* a send that lets the exception of a timed-out post through
SendSlackMessageUncaught(urlSet, outcome) ==
    IF ~urlSet THEN SinkResult(0, "Error: SLACK_WEBHOOK_URL not set", FALSE)
    ELSE IF outcome = "200"
    THEN SinkResult(1, "Slack message sent successfully", FALSE)
    ELSE SinkResult(1, "Slack error", outcome = "timeout")

\* UnifiedServer.send_slack_message
SendSlackMessage(urlSet, outcome) ==
    IF ~urlSet THEN SinkResult(0, "Error: SLACK_WEBHOOK_URL not set", FALSE)
    ELSE IF outcome = "200"
    THEN SinkResult(1, "Slack message sent successfully", FALSE)
    ELSE SinkResult(1, "Slack error", FALSE)

\* a send that goes to the SMTP server without looking at the credentials
\* and the recipient
SendGmailMessageUnchecked(credsSet, recipientSet, outcome) ==
    IF outcome = "sent"
    THEN SinkResult(1, "Gmail sent successfully", FALSE)
    ELSE SinkResult(1, "Gmail error", FALSE)

\* UnifiedServer.send_gmail_message
SendGmailMessage(credsSet, recipientSet, outcome) ==
    IF ~credsSet
    THEN SinkResult(0, "Error: GMAIL_USER and GMAIL_APP_PASSWORD not set",
                    FALSE)
    ELSE IF ~recipientSet
    THEN SinkResult(0, "Error: No recipient email specified", FALSE)
    ELSE IF outcome = "sent"
    THEN SinkResult(1, "Gmail sent successfully", FALSE)
    ELSE SinkResult(1, "Gmail error", FALSE)

\* what requests.post can do in slack_notifier: the outcomes above, or
\* another exception (a webhook URL that is not a URL)
NotifierOutcomes == SlackOutcomes \cup {"invalid_url"}

\* a notifier that has the generic handler only and lets a timeout pass
SendSlackNotificationNoTimeoutCase(urlSet, outcome) ==
    IF ~urlSet
    THEN SinkResult(0, "Error: SLACK_WEBHOOK_URL environment variable not set",
                    FALSE)
    ELSE IF outcome = "200"
    THEN SinkResult(1, "Message sent successfully to Slack", FALSE)
    ELSE IF outcome = "non2xx"
    THEN SinkResult(1, "Failed to send message. Status: ", FALSE)
    ELSE IF outcome = "timeout"
    THEN SinkResult(1, "", TRUE)
    ELSE SinkResult(1, "Error sending message: ", FALSE)

\* slack_notifier.send_slack_notification
SendSlackNotification(urlSet, outcome) ==
    IF ~urlSet
    THEN SinkResult(0, "Error: SLACK_WEBHOOK_URL environment variable not set",
                    FALSE)
    ELSE IF outcome = "200"
    THEN SinkResult(1, "Message sent successfully to Slack", FALSE)
    ELSE IF outcome = "non2xx"
    THEN SinkResult(1, "Failed to send message. Status: ", FALSE)
    ELSE IF outcome = "timeout"
    THEN SinkResult(1, "Request timed out. Check your internet connection and try again.",
                    FALSE)
    ELSE IF outcome = "connection"
    THEN SinkResult(1, "Connection error. Check your internet connection and webhook URL.",
                    FALSE)
    ELSE SinkResult(1, "Error sending message: ", FALSE)

\* mcp_instance.send_slack_alert: nothing is returned, the outcome is printed
SendSlackAlert(urlSet, outcome) ==
    IF ~urlSet THEN SinkResult(0, "SLACK_WEBHOOK_URL not set.", FALSE)
    ELSE IF outcome = "200"
    THEN SinkResult(1, "Slack notification sent successfully.", FALSE)
    ELSE IF outcome = "non2xx" THEN SinkResult(1, "Slack error", FALSE)
    ELSE SinkResult(1, "Exception while sending Slack message", FALSE)

\* a plan that takes every concluded run that did not succeed for a failure
NotificationPlanAnyConclusion(event_type, data) ==
    IF event_type = "ping" THEN <<[sink |-> "slack", template |-> "ping"]>>
    ELSE IF event_type = "push"
    THEN <<[sink |-> "slack", template |-> "push"]>>
    ELSE IF event_type = "workflow_run" /\ data.workflow_run # <<>>
            /\ data.workflow_run[1].conclusion # None
    THEN LET template == IF data.workflow_run[1].conclusion = "success"
                         THEN "success" ELSE "failure"
         IN  <<[sink |-> "slack", template |-> template],
               [sink |-> "gmail", template |-> template]>>
    ELSE <<>>

\* process_event_notifications: the sends made for an event, in order, each
\* with the message template it uses
NotificationPlan(event_type, data) ==
    IF event_type = "ping" THEN <<[sink |-> "slack", template |-> "ping"]>>
    ELSE IF event_type = "push"
    THEN <<[sink |-> "slack", template |-> "push"]>>
    ELSE IF event_type = "workflow_run" /\ data.workflow_run # <<>>
            /\ data.workflow_run[1].conclusion \in {"failure", "success"}
    THEN <<[sink |-> "slack",
            template |-> data.workflow_run[1].conclusion],
           [sink |-> "gmail",
            template |-> data.workflow_run[1].conclusion]>>
    ELSE <<>>

\* the environment of the process: GITHUB_WEBHOOK_SECRET, SLACK_WEBHOOK_URL,
\* GMAIL_USER with GMAIL_APP_PASSWORD, DEFAULT_EMAIL_RECIPIENT (set or not)
\* and the value of MCP_API_KEY (None when not set)
Configured ==
    [secret |-> FALSE, slack |-> TRUE, creds |-> TRUE, recipient |-> TRUE,
     api_key |-> "k1"]
Environments ==
    {Configured,
     [secret |-> TRUE, slack |-> FALSE, creds |-> TRUE, recipient |-> FALSE,
      api_key |-> None]}

\* one send of the plan
SendOne(entry, e, so, go) ==
    IF entry.sink = "slack" THEN SendSlackMessage(e.slack, so)
    ELSE SendGmailMessage(e.creds, e.recipient, go)

Succeeded(r) ==
    r.text \in {"Slack message sent successfully", "Gmail sent successfully"}

\* the sends of a plan in order; an exception leaving a send ends the plan
RECURSIVE RunPlan(_, _, _, _)
RunPlan(plan, e, so, go) ==
    IF plan = <<>>
    THEN [attempts |-> 0, failed |-> FALSE, raised |-> FALSE]
    ELSE LET r == SendOne(Head(plan), e, so, go)
             rest == RunPlan(Tail(plan), e, so, go)
         IN  IF r.raised
             THEN [attempts |-> r.attempts, failed |-> TRUE, raised |-> TRUE]
             ELSE [attempts |-> r.attempts + rest.attempts,
                   failed |-> ~Succeeded(r) \/ rest.failed,
                   raised |-> rest.raised]

\* a call of a send operation as the model records it: the operation, the
\* message template, whether the settings the operation asks for were there,
\* what the sink does when it is tried and what SinkResult says of the call
Sent(op, template, configured, outcome, r) ==
    [op |-> op, template |-> template, configured |-> configured,
     outcome |-> outcome, attempts |-> r.attempts, text |-> r.text,
     raised |-> r.raised]

\* the settings a send of the plan asks for: SLACK_WEBHOOK_URL, or the Gmail
\* credentials and DEFAULT_EMAIL_RECIPIENT
SinkConfigured(entry, e) ==
    IF entry.sink = "slack" THEN e.slack ELSE e.creds /\ e.recipient

SendOperation(entry) ==
    IF entry.sink = "slack" THEN "send_slack_message"
    ELSE "send_gmail_message"

\* the calls process_event_notifications makes for a plan, in order
RECURSIVE PlanSends(_, _, _, _)
PlanSends(plan, e, so, go) ==
    IF plan = <<>> THEN <<>>
    ELSE LET r == SendOne(Head(plan), e, so, go)
         IN  <<Sent(SendOperation(Head(plan)), Head(plan).template,
                    SinkConfigured(Head(plan), e),
                    IF Head(plan).sink = "slack" THEN so ELSE go, r)>>
             \o (IF r.raised THEN <<>>
                 ELSE PlanSends(Tail(plan), e, so, go))

\* how "from mcp.server.fastmcp import FastMCP" and FastMCP("mcp-autoprx")
\* can come out: the import fails, the constructor raises, or the instance
\* is there
McpStates == {"unavailable", "failed", "created"}

\* the routes setup_routes registers whatever the MCP instance
BaseRoutes ==
    {"/.well-known/openid-configuration",
     "/.well-known/oauth-authorization-server", "/oauth/register",
     "/oauth/token", "/token", "/authorize", "/", "/health", "/test",
     "/mcp-test", "/tools", "/test-email", "/webhook/github"}

\* "if MCP_AVAILABLE and self.mcp: ... else: ..." of setup_routes: /mcp is
\* registered in both branches, /call/{tool_name} in the else branch
Routes(mcp) ==
    BaseRoutes \cup {"/mcp"}
        \cup (IF mcp = "created" THEN {} ELSE {"/call/{tool_name}"})

\* UnifiedServer()
Constructed(mcp) == [mcp |-> mcp, routes |-> Routes(mcp)]

\* public_endpoints of verify_api_key
PublicEndpoints ==
    {"/", "/health", "/docs", "/openapi.json",
     "/.well-known/openid-configuration",
     "/.well-known/oauth-authorization-server", "/oauth/register",
     "/oauth/token", "/token", "/authorize"}

\* a middleware with a fallback: without MCP_API_KEY every request passes
VerifyApiKeyWithFallback(path, api_key, expected) ==
    IF path \in PublicEndpoints \cup {"/webhook/github", "/mcp"}
    THEN "call_next"
    ELSE IF expected \in {None, ""} THEN "call_next"
    ELSE IF api_key \in {None, ""} \/ api_key # expected THEN "http403"
    ELSE "call_next"

\* verify_api_key: the request is passed on (call_next) or HTTPException is
\* raised; api_key is the x-api-key header, expected is MCP_API_KEY, None
\* when there is none
VerifyApiKey(path, api_key, expected) ==
    IF path \in PublicEndpoints THEN "call_next"
    ELSE IF path = "/webhook/github" THEN "call_next"
    ELSE IF path = "/mcp" THEN "call_next"
    ELSE IF expected \in {None, ""} THEN "http500"
    ELSE IF api_key \in {None, ""} \/ api_key # expected THEN "http403"
    ELSE "call_next"

\* the paths requests are made to: the registered routes, a tool call, the
\* documentation FastAPI serves, a route with a slash added and a path that
\* has no route
RequestPaths ==
    BaseRoutes \cup {"/mcp", "/call/get_workflow_status", "/docs",
                     "/openapi.json", "/redoc", "/tools/", "/nowhere"}

\* values of the x-api-key header and of MCP_API_KEY
ApiKeys == {None, "", "k1", "k2"}

\* a request as the model records it
Served(path, api_key, outcome, reached) ==
    [path |-> path, api_key |-> api_key, outcome |-> outcome,
     reached |-> reached]
NotServed == Served("", None, "none", FALSE)

\* ---------------------------------------------------------------- state
VARIABLES
    cwd,        \* working directory of the unified server process
    env,        \* its environment variables (set or not)
    app,        \* the server as constructed: how its MCP instance came out
                \* and the routes it registered
    fs,         \* the two places an EVENTS_FILE can name
    pc,         \* position of each webhook handler task
    loc,        \* local variables of each handler task
    running,    \* the task that holds the event loop, or None
    arrivals,   \* requests accepted so far
    preloaded,  \* history: ping deliveries ingested before the first state
    stored,     \* history: the events whose store_event returned after them
    slot,       \* history: index in stored of the task's latest event
    overlap,    \* history: the latest request arrived while another
                \* waited for its body
    reply,      \* the response sent by the latest step, if it sent one
    qres,       \* the tool call made by the latest step, if it made one
    prev,       \* the latest tool call made since a webhook handler ran,
                \* whether the same call had been made right before it, and
                \* the alert tasks it created
    alerts,     \* send_slack_alert tasks created and not yet run
    alertLog,   \* what the send_slack_alert run by the latest step printed
    sends,      \* the calls of a send operation the latest step made
    heard,      \* the request the latest step read, if it read one
    served      \* the latest request that went through verify_api_key, what
                \* the middleware did with it and whether a route handler ran

vars == <<cwd, env, app, fs, pc, loc, running, arrivals, preloaded, stored, slot,
          overlap, reply, qres, prev, alerts, alertLog, sends, heard, served>>

ServerLog == ServerLogPath(cwd)
ServerFile == fs[ServerLog]
MonitorFile == fs[MonitorLogPath]

\* every event appended since the log was absent
History == Pings(preloaded) \o stored

NoLocals ==
    [event_type |-> "", data |-> <<>>, event |-> <<>>, events |-> <<>>,
     pre |-> AbsentFile]

\* a response as the model records it: the task, the response, how the
\* request ended, the delivery attempts made for it and whether one failed
Reply(t, response, how, attempts, failed) ==
    [task |-> t, response |-> response, fate |-> how, attempts |-> attempts,
     failed |-> failed]
NoReply == Reply(None, NoResponse, "none", 0, FALSE)

\* a tool call as the model records it; during says whether a store_event
\* was appending to the file the tool read
Call(tool, limit, workflow_name, result, during) ==
    [tool |-> tool, limit |-> limit, workflow_name |-> workflow_name,
     result |-> result, during |-> during]
NoCall == Call("", 0, None, NoResult, FALSE)
SameCall(a, b) ==
    a.tool = b.tool /\ a.limit = b.limit /\ a.workflow_name = b.workflow_name
NoEarlierCall == [call |-> NoCall, again |-> FALSE, sent |-> <<>>]

\* a store_event that awaits between its load and its write
SuspensionPointsInStore == {"body", "open"}

\* positions at which a handler task has given up the event loop: the
\* first "await request.body()".  Nothing in store_event or in
\* process_event_notifications suspends.
SuspensionPoints == {"body"}

InFlight(t) == pc[t] # "idle"
\* the loop resumes a suspended handler when it is free and has run the
\* tasks created before
LoopFree == running = None /\ alerts = <<>>
CanRun(t) ==
    IF pc[t] \in SuspensionPoints THEN LoopFree ELSE running = t
LoopAfter(t, next) ==
    IF next \in SuspensionPoints \cup {"idle"} THEN None ELSE t
\* a store_event is between its load and the end of its dump
AppendInProgress == \E t \in Tasks : pc[t] \in {"open", "dump"}

\* a handler that answers as usual when store_event raised
FailureSwallowed(event_type) == Received(event_type)

\* "except Exception as e: ... raise HTTPException(status_code=400, ...)"
FailureResponse(event_type) == Http400

FreshWith(dirs, envs, n, mcps) ==
    /\ cwd \in dirs
    /\ env \in envs
    /\ app \in {Constructed(m) : m \in mcps}
    /\ preloaded = n
    /\ fs = [p \in Paths |->
                IF p = ServerLogPath(cwd) /\ n > 0
                THEN JsonFile(Ingested(n)) ELSE AbsentFile]
    /\ stored = <<>>
    /\ pc = [t \in Tasks |-> "idle"]
    /\ loc = [t \in Tasks |-> NoLocals]
    /\ running = None
    /\ arrivals = 0
    /\ slot = [t \in Tasks |-> 0]
    /\ overlap = FALSE
    /\ reply = NoReply
    /\ qres = NoCall
    /\ prev = NoEarlierCall
    /\ alerts = <<>>
    /\ alertLog = "none"
    /\ sends = <<>>
    /\ heard = <<>>
    /\ served = NotServed

\* a server whose MCP instance was created
Fresh(dirs, envs, n) == FreshWith(dirs, envs, n, {"created"})

\* a server started where no log exists yet
Init == Fresh({"repo", "webhook_server"}, Environments, 0)

\* a step that is not a tool call and runs no alert task
NoToolCall == qres' = NoCall /\ prev' = NoEarlierCall /\ alertLog' = "none"
\* such a step that calls no send operation either
NoToolOutput == NoToolCall /\ sends' = <<>> /\ heard' = <<>>

\* the handler leaves through a return or a raise
Leave(t, response, how, attempts, failed) ==
    /\ pc' = [pc EXCEPT ![t] = "idle"]
    /\ reply' = Reply(t, response, how, attempts, failed)
    /\ loc' = [loc EXCEPT ![t] = NoLocals]
    /\ running' = IF running = t THEN None ELSE running

\* store_event raises at step how: the handler answers with the failure
\* response
StoreFails(t, how) ==
    Leave(t, FailureResponse(loc[t].event_type), how, 0, FALSE)

\* a request reaches the server, which accepts max requests in all
ArriveUpTo(t, max) ==
    /\ pc[t] = "idle"
    /\ arrivals < max
    /\ arrivals' = arrivals + 1
    /\ pc' = [pc EXCEPT ![t] = "body"]
    /\ slot' = [slot EXCEPT ![t] = 0]
    /\ overlap' = \E u \in Tasks \ {t} : pc[u] = "body"
    /\ reply' = NoReply
    /\ NoToolOutput
    /\ UNCHANGED <<cwd, env, app, served, fs, loc, running, preloaded, stored, alerts>>

Arrive(t) == ArriveUpTo(t, MaxRequests)

\* the client disconnects while the handler awaits the body:
\* request.body() raises inside the try block
Abort(t) ==
    /\ pc[t] = "body"
    /\ Leave(t, Http400, "aborted", 0, FALSE)
    /\ NoToolOutput
    /\ UNCHANGED <<cwd, env, app, served, fs, arrivals, preloaded, stored, slot, overlap,
                   alerts>>

\* github_webhook from the signature check to the call of store_event, for
\* one of the requests
BeginWith(t, requests) ==
    /\ pc[t] = "body"
    /\ CanRun(t)
    /\ \E r \in requests :
        /\ heard' = <<r>>
        /\ IF SignatureRejected(env.secret, r.signature)
           THEN Leave(t, Http400, "rejected", 0, FALSE)
           ELSE IF r.body.kind = "empty"
           THEN Leave(t, EmptyReceived, "empty", 0, FALSE)
           ELSE IF ~DecodeBody(r.content_type, r.body).ok
           THEN Leave(t, ErrorBody(DecodeBody(r.content_type, r.body).message,
                                   DecodeBody(r.content_type, r.body).detail),
                      "parse_error", 0, FALSE)
           ELSE IF ~IsObject(DecodeBody(r.content_type, r.body).data[1])
           THEN Leave(t, Http400, "not_object", 0, FALSE)
           ELSE /\ pc' = [pc EXCEPT ![t] = "load"]
                /\ loc' = [loc EXCEPT ![t] =
                       [NoLocals EXCEPT
                           !.event_type = r.event_type,
                           !.data = DecodeBody(r.content_type, r.body).data]]
                /\ running' = LoopAfter(t, "load")
                /\ reply' = NoReply
    /\ NoToolCall
    /\ sends' = <<>>
    /\ UNCHANGED <<cwd, env, app, served, fs, arrivals, preloaded, stored, slot, overlap,
                   alerts>>

Begin(t) == BeginWith(t, Requests)

\* store_event up to "events = events[-100:]"; clock is what the clock can
\* show when the event record is built
Load(t, clock) ==
    /\ pc[t] = "load"
    /\ CanRun(t)
    /\ \E ts \in clock :
        LET event == MakeEvent(loc[t].event_type, loc[t].data[1], ts)
            loaded == LoadOrEmpty(ServerFile)
        IN  IF ~loaded.ok
            THEN StoreFails(t, "load_failed")
            ELSE /\ loc' = [loc EXCEPT ![t] =
                        [@ EXCEPT !.event = <<event>>,
                                  !.events = AppendEvent(loaded.events, event),
                                  !.pre = ServerFile]]
                 /\ pc' = [pc EXCEPT ![t] = "open"]
                 /\ running' = LoopAfter(t, "open")
                 /\ reply' = NoReply
    /\ NoToolOutput
    /\ UNCHANGED <<cwd, env, app, served, fs, arrivals, preloaded, stored, slot, overlap,
                   alerts>>

\* open(EVENTS_FILE, 'r') or the read raises OSError
LoadError(t) ==
    /\ pc[t] = "load"
    /\ CanRun(t)
    /\ ServerFile.exists
    /\ StoreFails(t, "load_failed")
    /\ NoToolOutput
    /\ UNCHANGED <<cwd, env, app, served, fs, arrivals, preloaded, stored, slot, overlap,
                   alerts>>

\* open(EVENTS_FILE, 'w'): the file is created or cut to no bytes
Open(t) ==
    /\ pc[t] = "open"
    /\ CanRun(t)
    /\ fs' = [fs EXCEPT ![ServerLog] = TornFile(<<>>)]
    /\ pc' = [pc EXCEPT ![t] = "dump"]
    /\ running' = LoopAfter(t, "dump")
    /\ reply' = NoReply
    /\ NoToolOutput
    /\ UNCHANGED <<cwd, env, app, served, loc, arrivals, preloaded, stored, slot, overlap,
                   alerts>>

\* open(EVENTS_FILE, 'w') raises OSError
OpenError(t) ==
    /\ pc[t] = "open"
    /\ CanRun(t)
    /\ StoreFails(t, "open_failed")
    /\ NoToolOutput
    /\ UNCHANGED <<cwd, env, app, served, fs, arrivals, preloaded, stored, slot, overlap,
                   alerts>>

\* json.dump(events, f, indent=2) and the close of the file
Dump(t) ==
    /\ pc[t] = "dump"
    /\ CanRun(t)
    /\ fs' = [fs EXCEPT ![ServerLog] = JsonFile(loc[t].events)]
    /\ stored' = Append(stored, loc[t].event[1])
    /\ slot' = [slot EXCEPT ![t] = Len(stored) + 1]
    /\ pc' = [pc EXCEPT ![t] = "notify"]
    /\ running' = LoopAfter(t, "notify")
    /\ reply' = NoReply
    /\ NoToolOutput
    /\ UNCHANGED <<cwd, env, app, served, loc, arrivals, preloaded, overlap, alerts>>

\* a write of the dump raises OSError: what was written stays in the file
DumpError(t) ==
    /\ pc[t] = "dump"
    /\ CanRun(t)
    /\ \E written \in Prefixes(loc[t].events) :
        fs' = [fs EXCEPT ![ServerLog] = TornFile(written)]
    /\ StoreFails(t, "dump_failed")
    /\ NoToolOutput
    /\ UNCHANGED <<cwd, env, app, served, arrivals, preloaded, stored, slot, overlap,
                   alerts>>

\* a handler that calls process_event_notifications as soon as it has the
\* payload, whether store_event has run or not
NotifyUnstored(t) ==
    /\ pc[t] \in {"load", "notify"}
    /\ CanRun(t)
    /\ \E so \in SlackOutcomes, go \in GmailOutcomes :
        LET done == RunPlan(NotificationPlan(loc[t].event_type,
                                             loc[t].data[1]), env, so, go)
        IN  /\ Leave(t, Received(loc[t].event_type), "stored",
                     done.attempts, done.failed)
            /\ sends' = PlanSends(NotificationPlan(loc[t].event_type,
                                                   loc[t].data[1]),
                                  env, so, go)
    /\ heard' = <<>>
    /\ NoToolCall
    /\ UNCHANGED <<cwd, env, app, served, fs, arrivals, preloaded, stored, slot, overlap,
                   alerts>>

\* process_event_notifications and the handler's return
Notify(t) ==
    /\ pc[t] = "notify"
    /\ CanRun(t)
    /\ \E so \in SlackOutcomes, go \in GmailOutcomes :
        LET done == RunPlan(NotificationPlan(loc[t].event_type,
                                             loc[t].data[1]), env, so, go)
        IN  /\ IF done.raised
               THEN Leave(t, FailureResponse(loc[t].event_type),
                          "notify_failed", done.attempts, done.failed)
               ELSE Leave(t, Received(loc[t].event_type), "stored",
                          done.attempts, done.failed)
            /\ sends' = PlanSends(NotificationPlan(loc[t].event_type,
                                                   loc[t].data[1]),
                                  env, so, go)
    /\ heard' = <<>>
    /\ NoToolCall
    /\ UNCHANGED <<cwd, env, app, served, fs, arrivals, preloaded, stored, slot, overlap,
                   alerts>>

\* process_event_notifications reaches send_gmail_message with the
\* credentials and the recipient set, and the SMTP server accepts the
\* connection and never answers: smtplib.SMTP is built without a timeout,
\* the read blocks, and with it the event loop
NotifyHangs(t) ==
    /\ pc[t] = "notify"
    /\ CanRun(t)
    /\ LET plan == NotificationPlan(loc[t].event_type, loc[t].data[1])
       IN  /\ \E k \in 1..Len(plan) : plan[k].sink = "gmail"
           /\ env.creds /\ env.recipient
           /\ \E so \in SlackOutcomes :
                sends' = PlanSends(SelectSeq(plan,
                                             LAMBDA x : x.sink = "slack"),
                                   env, so, "sent")
    /\ pc' = [pc EXCEPT ![t] = "hung"]
    /\ reply' = NoReply
    /\ heard' = <<>>
    /\ NoToolCall
    /\ UNCHANGED <<cwd, env, app, served, fs, loc, running, arrivals, preloaded, stored,
                   slot, overlap, alerts>>

\* setup_mcp_tools registers the tools when the MCP instance is there
ToolsRegistered == app.mcp = "created"

\* the arguments the model passes to the tools
Limits == {1, DefaultLimit}
WorkflowNames == {None, BuildDoc}

\* a tool that removes the log it has read
ToolRunsConsumesLog(tool, limit, workflow_name, out, during) ==
    /\ ToolsRegistered
    /\ Len(alerts) + Len(AlertsFor(out.calls)) <= MaxAlerts
    /\ qres' = Call(tool, limit, workflow_name, out.result, during)
    /\ prev' = [call |-> qres', again |-> SameCall(prev.call, qres'),
                sent |-> AlertsFor(out.calls)]
    /\ alerts' = alerts \o AlertsFor(out.calls)
    /\ alertLog' = "none"
    /\ sends' = <<>>
    /\ heard' = <<>>
    /\ reply' = NoReply
    /\ fs' = [fs EXCEPT ![MonitorLogPath] = AbsentFile]
    /\ UNCHANGED <<cwd, env, app, served, pc, loc, running, arrivals, preloaded,
                   stored, slot, overlap>>

\* a tool of ci_monitor returns out; the tasks its on_ci_event_detected
\* calls created wait on the event loop
ToolRuns(tool, limit, workflow_name, out, during) ==
    /\ ToolsRegistered
    /\ Len(alerts) + Len(AlertsFor(out.calls)) <= MaxAlerts
    /\ qres' = Call(tool, limit, workflow_name, out.result, during)
    /\ prev' = [call |-> qres', again |-> SameCall(prev.call, qres'),
                sent |-> AlertsFor(out.calls)]
    /\ alerts' = alerts \o AlertsFor(out.calls)
    /\ alertLog' = "none"
    /\ sends' = <<>>
    /\ heard' = <<>>
    /\ reply' = NoReply
    /\ UNCHANGED <<cwd, env, app, served, fs, pc, loc, running, arrivals, preloaded,
                   stored, slot, overlap>>

\* the tools called in the unified server's process, where they run on its
\* event loop
RecentEventsWith(limits) ==
    /\ LoopFree
    /\ \E limit \in limits :
        ToolRuns("get_recent_actions_events", limit, None,
                 GetRecentActionsEvents(MonitorFile, limit), FALSE)

RecentEvents == RecentEventsWith(Limits)

\* a get_workflow_status that remembers what it answered: asked the same
\* again, it answers with no summaries
WorkflowStatusOnlyNews ==
    /\ LoopFree
    /\ \E name \in WorkflowNames :
        ToolRuns("get_workflow_status", 0, name,
                 IF prev.call.tool = "get_workflow_status"
                        /\ prev.call.workflow_name = name
                 THEN Outcome(ResultList(<<>>), <<>>)
                 ELSE GetWorkflowStatus(MonitorFile, name), FALSE)

WorkflowStatus ==
    /\ LoopFree
    /\ \E name \in WorkflowNames :
        ToolRuns("get_workflow_status", 0, name,
                 GetWorkflowStatus(MonitorFile, name), FALSE)

DocumentationStatus ==
    /\ LoopFree
    /\ ToolRuns("get_documentation_workflow_status", 0, None,
                GetDocumentationWorkflowStatus(MonitorFile), FALSE)

\* a get_failed_workflows that remembers having alerted: called again, it
\* returns the same summaries and creates no alert
FailedWorkflowsAlertOnce ==
    /\ LoopFree
    /\ ToolRuns("get_failed_workflows", 0, None,
                IF prev.call.tool = "get_failed_workflows"
                THEN Outcome(GetFailedWorkflows(MonitorFile).result, <<>>)
                ELSE GetFailedWorkflows(MonitorFile), FALSE)

FailedWorkflows ==
    /\ LoopFree
    /\ ToolRuns("get_failed_workflows", 0, None,
                GetFailedWorkflows(MonitorFile), FALSE)

\* get_recent_actions_events called in another process that imports
\* tools.ci_monitor (the MCP server built on mcp_instance.mcp, a test run):
\* it runs whatever the unified server is doing
OutsideRead ==
    \E limit \in Limits :
        ToolRuns("get_recent_actions_events", limit, None,
                 GetRecentActionsEvents(MonitorFile, limit),
                 AppendInProgress /\ ServerLog = MonitorLogPath)

\* a task created by on_ci_event_detected runs send_slack_alert
AlertRuns ==
    /\ alerts # <<>>
    /\ running = None
    /\ \E so \in SlackOutcomes :
        /\ alertLog' = IF SendSlackAlert(env.slack, so).raised THEN "raised"
                       ELSE SendSlackAlert(env.slack, so).text
        /\ sends' = <<Sent("send_slack_alert", Head(alerts).status,
                           env.slack, so, SendSlackAlert(env.slack, so))>>
    /\ alerts' = Tail(alerts)
    /\ qres' = NoCall
    /\ heard' = <<>>
    /\ reply' = NoReply
    /\ UNCHANGED <<cwd, env, app, served, fs, pc, loc, running, arrivals, preloaded,
                   stored, slot, overlap, prev>>

\* the steps of the webhook handler
IngestionAt(clock) ==
    \/ \E t \in Tasks : Arrive(t)
    \/ \E t \in Tasks : Abort(t)
    \/ \E t \in Tasks : Begin(t)
    \/ \E t \in Tasks : Load(t, clock)
    \/ \E t \in Tasks : LoadError(t)
    \/ \E t \in Tasks : Open(t)
    \/ \E t \in Tasks : OpenError(t)
    \/ \E t \in Tasks : Dump(t)
    \/ \E t \in Tasks : DumpError(t)
    \/ \E t \in Tasks : Notify(t)
    \/ \E t \in Tasks : NotifyHangs(t)

Ingestion == IngestionAt(Timestamps)

Next ==
    \/ IngestionAt(SameTick)
    \/ RecentEvents
    \/ WorkflowStatus
    \/ DocumentationStatus
    \/ FailedWorkflows
    \/ OutsideRead
    \/ AlertRuns

Spec == Init /\ [][Next]_vars

\* a server whose log already holds Preload ping deliveries; only webhook
\* requests are made
InitLoaded == Fresh({"repo"}, {Configured}, Preload)
SpecIngest == InitLoaded /\ [][Ingestion]_vars

\* a step that calls one send operation as a tool
SendToolRuns(op, configured, outcome, r) ==
    /\ ToolsRegistered
    /\ LoopFree
    /\ sends' = <<Sent(op, "message", configured, outcome, r)>>
    /\ heard' = <<>>
    /\ qres' = NoCall
    /\ alertLog' = "none"
    /\ reply' = NoReply
    /\ UNCHANGED <<cwd, env, app, served, fs, pc, loc, running, arrivals, preloaded,
                   stored, slot, overlap, prev, alerts>>

\* the tool send_slack_notification
SlackNotification ==
    \E so \in NotifierOutcomes :
        SendToolRuns("send_slack_notification", env.slack, so,
                     SendSlackNotification(env.slack, so))

\* the tool send_gmail_notification(subject, message, recipient): the
\* recipient is given or left to DEFAULT_EMAIL_RECIPIENT
GmailNotification ==
    \E given \in BOOLEAN, go \in GmailOutcomes :
        SendToolRuns("send_gmail_message",
                     env.creds /\ (given \/ env.recipient), go,
                     SendGmailMessage(env.creds, given \/ env.recipient, go))

\* deliveries of every kind process_event_notifications tells apart
NotifyDeliveries ==
    Deliveries
    \cup {[event_type |-> "workflow_run",
           data |-> Payload(<<Run(BuildDoc, c, U1, 1)>>, "completed")] :
            c \in {None, "cancelled"}}
    \cup {[event_type |-> "ping", data |-> PingPayload],
          [event_type |-> "issues", data |-> Payload(<<>>, "opened")]}

NotifyRequests ==
    {Request("application/json", "valid", "json", d) : d \in NotifyDeliveries}

\* every way the sinks can be configured, with no webhook secret
SinkEnvironments ==
    [secret : {FALSE}, slack : BOOLEAN, creds : BOOLEAN, recipient : BOOLEAN,
     api_key : {None}]

Handler == "t1"

\* a server run in webhook_server, constructed with or without an MCP
\* instance, that has ingested ping deliveries and serves one request at a
\* time; the send tools and get_failed_workflows are called between the
\* requests
InitNotify ==
    FreshWith({"webhook_server"}, SinkEnvironments, Pinged, McpStates)

NextNotify ==
    \/ ArriveUpTo(Handler, MaxNotified)
    \/ Abort(Handler)
    \/ BeginWith(Handler, NotifyRequests)
    \/ Load(Handler, SameTick)
    \/ LoadError(Handler)
    \/ Open(Handler)
    \/ OpenError(Handler)
    \/ Dump(Handler)
    \/ DumpError(Handler)
    \/ Notify(Handler)
    \/ NotifyHangs(Handler)
    \/ SlackNotification
    \/ GmailNotification
    \/ FailedWorkflows
    \/ AlertRuns

SpecNotify == InitNotify /\ [][NextNotify]_vars

\* the event loop runs a handler that can run: the body arrives or the read
\* of it fails, and every later part of the handler is run to its end or
\* to its exception
HandlerProgress ==
    /\ WF_vars(BeginWith(Handler, NotifyRequests) \/ Abort(Handler))
    /\ WF_vars(Load(Handler, SameTick) \/ LoadError(Handler))
    /\ WF_vars(Open(Handler) \/ OpenError(Handler))
    /\ WF_vars(Dump(Handler) \/ DumpError(Handler))
    /\ WF_vars(Notify(Handler) \/ NotifyHangs(Handler))
    /\ WF_vars(AlertRuns)

SpecNotifyLive == SpecNotify /\ HandlerProgress

\* requests with every outcome of the signature comparison: deliveries as
\* JSON, a body of no bytes, a form whose payload is not JSON
SignedRequests ==
    {Request("application/json", g, "json", d) :
        g \in Signatures, d \in Deliveries}
    \cup {Request("application/x-www-form-urlencoded", g, k, PushDelivery) :
            g \in Signatures, k \in {"empty", "form_bad"}}

\* GITHUB_WEBHOOK_SECRET is set, the sinks are configured or not
SignedEnvironments ==
    [secret : {TRUE}, slack : BOOLEAN, creds : {TRUE}, recipient : BOOLEAN,
     api_key : {None}]

\* a server run in webhook_server with a webhook secret that has ingested
\* ping deliveries and serves one request at a time
InitSigned ==
    FreshWith({"webhook_server"}, SignedEnvironments, Pinged, {"created"})

NextSigned ==
    \/ ArriveUpTo(Handler, MaxNotified)
    \/ Abort(Handler)
    \/ BeginWith(Handler, SignedRequests)
    \/ Load(Handler, SameTick)
    \/ LoadError(Handler)
    \/ Open(Handler)
    \/ OpenError(Handler)
    \/ Dump(Handler)
    \/ DumpError(Handler)
    \/ Notify(Handler)
    \/ NotifyHangs(Handler)

SpecSigned == InitSigned /\ [][NextSigned]_vars

\* the events of the logs the query specification starts from: runs of one
\* workflow with different and with equal updated_at, a run of a second
\* documentation workflow still in progress, a run of a workflow that is
\* not a documentation workflow, and an event without a workflow_run
QueryRuns ==
    {Run(BuildDoc, "failure", U1, 1),
     Run(BuildDoc, "success", U2, 2),
     Run(BuildDoc, "failure", U2, 3),
     Run(BuildPR, None, U3, 4),
     Run(Deploy, "failure", U1, 5)}
QueryEvents ==
    {MakeEvent("workflow_run", Payload(<<r>>, "completed"), 1) : r \in QueryRuns}
    \cup {Filler}
Logs(n) == UNION {[1..k -> QueryEvents] : k \in 0..n}

\* limits of none, of one event, of the longest log and of more than that
QueryLimits == {0, 1, MaxLogLen, MaxLogLen + 1}

\* a server run in webhook_server whose log holds the events of some
\* deliveries, or a log put there holding an empty list; only the query
\* tools are called
InitQuery ==
    /\ cwd = "webhook_server"
    /\ env = Configured
    /\ app = Constructed("created")
    /\ preloaded = 0
    /\ stored \in Logs(MaxLogLen)
    /\ \E made \in BOOLEAN :
        fs = [p \in Paths |->
                IF p = MonitorLogPath /\ (stored # <<>> \/ made)
                THEN JsonFile(stored) ELSE AbsentFile]
    /\ pc = [t \in Tasks |-> "idle"]
    /\ loc = [t \in Tasks |-> NoLocals]
    /\ running = None
    /\ arrivals = 0
    /\ slot = [t \in Tasks |-> 0]
    /\ overlap = FALSE
    /\ reply = NoReply
    /\ qres = NoCall
    /\ prev = NoEarlierCall
    /\ alerts = <<>>
    /\ alertLog = "none"
    /\ sends = <<>>
    /\ heard = <<>>
    /\ served = NotServed

RecentEventsAnyLimit == RecentEventsWith(QueryLimits)

Queries ==
    \/ RecentEventsAnyLimit
    \/ WorkflowStatus
    \/ DocumentationStatus
    \/ FailedWorkflows
    \/ AlertRuns

SpecQuery == InitQuery /\ [][Queries]_vars

\* a request goes through verify_api_key; its route handler runs when the
\* middleware passes it on and the application has a route for the path
Serve ==
    \E path \in RequestPaths, api_key \in ApiKeys :
        /\ served' =
            Served(path, api_key, VerifyApiKey(path, api_key, env.api_key),
                   /\ VerifyApiKey(path, api_key, env.api_key) = "call_next"
                   /\ (IF path = "/call/get_workflow_status"
                       THEN "/call/{tool_name}" ELSE path)
                        \in app.routes
                            \cup {"/docs", "/openapi.json", "/redoc"})
        /\ UNCHANGED <<cwd, env, app, fs, pc, loc, running, arrivals,
                       preloaded, stored, slot, overlap, reply, qres, prev,
                       alerts, alertLog, sends, heard>>

\* a server constructed with or without an MCP instance, with every value
\* of MCP_API_KEY, to which requests of every path are made
InitGuard ==
    FreshWith({"webhook_server"},
              [secret : {FALSE}, slack : BOOLEAN, creds : {TRUE},
               recipient : {TRUE}, api_key : ApiKeys],
              0, McpStates)

SpecGuard == InitGuard /\ [][Serve]_vars

\* the workflow_run object without one of its members
Without(run, key) == [k \in DOMAIN run \ {key} |-> run[k]]

\* deliveries whose workflow_run object is whole, or lacks its name, its
\* updated_at or its status, and a delivery without a workflow_run
SparseRuns ==
    {Run(BuildDoc, "failure", U1, 1),
     Without(Run(BuildDoc, "failure", U2, 2), "name"),
     Without(Run(BuildDoc, "success", U2, 3), "updated_at"),
     Without(Run(BuildDoc, "failure", U1, 4), "status")}
SparseEvents ==
    {MakeEvent("workflow_run", Payload(<<r>>, "completed"), 1) :
        r \in SparseRuns}
    \cup {Filler}

\* a server run in webhook_server whose log holds the events store_event
\* made of such deliveries; the workflow queries are called
InitSparse ==
    /\ stored \in UNION {[1..k -> SparseEvents] : k \in 0..MaxLogLen}
    /\ cwd = "webhook_server"
    /\ env = Configured
    /\ app = Constructed("created")
    /\ preloaded = 0
    /\ fs = [p \in Paths |->
                IF p = MonitorLogPath /\ stored # <<>>
                THEN JsonFile(stored) ELSE AbsentFile]
    /\ pc = [t \in Tasks |-> "idle"]
    /\ loc = [t \in Tasks |-> NoLocals]
    /\ running = None
    /\ arrivals = 0
    /\ slot = [t \in Tasks |-> 0]
    /\ overlap = FALSE
    /\ reply = NoReply
    /\ qres = NoCall
    /\ prev = NoEarlierCall
    /\ alerts = <<>>
    /\ alertLog = "none"
    /\ sends = <<>>
    /\ heard = <<>>
    /\ served = NotServed

WorkflowQueries ==
    \/ WorkflowStatus
    \/ DocumentationStatus
    \/ FailedWorkflows
    \/ AlertRuns

SpecSparse == InitSparse /\ [][WorkflowQueries]_vars

\* ------------------------------------------------------------ properties

\* C1: whatever requests were served, failed or not, neither place a log
\* can be holds more than 100 entries
C1_LogBounded ==
    \A p \in Paths : Len(fs[p].events) <= LogCapacity

\* the log is full and an event has been appended to the full log
C1_Witness ==
    /\ ServerFile.valid
    /\ Len(ServerFile.events) = LogCapacity
    /\ Len(History) > LogCapacity


\* C2: the log read back is the last min(N, 100) of the N events appended
\* since it was absent, in append order and unchanged
C2_LoadReturnsLastAppended ==
    /\ ~ServerFile.exists => History = <<>>
    /\ ServerFile.valid =>
        LoadLog(ServerFile).events =
            SubSeq(History, Len(History) - Min(Len(History), LogCapacity) + 1,
                   Len(History))

\* more than 100 events were appended, the latest with a receipt time
\* before that of the entries it pushed out, and it is the last of the log
C2_Witness ==
    /\ ServerFile.valid
    /\ Len(History) > LogCapacity
    /\ stored # <<>>
    /\ stored[Len(stored)].timestamp < Filler.timestamp
    /\ ServerFile.events[LogCapacity] = stored[Len(stored)]

\* the filter of a tool
QueryMode(tool) ==
    CASE tool = "get_workflow_status" -> "all"
      [] tool = "get_documentation_workflow_status" -> "docs"
      [] tool = "get_failed_workflows" -> "failed"
      [] OTHER -> "none"

\* the latest step was a workflow query that returned a list of summaries
QueryAnswered ==
    /\ QueryMode(qres.tool) # "none"
    /\ qres.result.kind = "list"

\* the positions of the log whose event the query of the latest step scans
\* for the workflow called name
Candidates(log, name) ==
    {i \in 1..Len(log) :
        /\ Matches(QueryMode(qres.tool), qres.workflow_name, log[i])
        /\ RunOf(log[i]).name = name}

\* the candidates no other candidate has a greater updated_at than
Greatest(log, name) ==
    {i \in Candidates(log, name) :
        \A j \in Candidates(log, name) :
            ~StrGreater(RunOf(log[j]).updated_at, RunOf(log[i]).updated_at)}

SummariesFor(items, name) ==
    {i \in 1..Len(items) : items[i].name = name}

WorkflowsOf(log) ==
    {RunOf(log[i]).name : i \in {k \in 1..Len(log) : HasRun(log[k])}}

Orderings(n) ==
    {f \in [1..n -> 1..n] : \A i, j \in 1..n : f[i] = f[j] => i = j}

\* C3 as claimed: a workflow query returns, for every workflow name, the
\* same summaries whatever the order of the events in the log
C3_IndependentOfLogOrder ==
    QueryAnswered =>
        \A f \in Orderings(Len(MonitorFile.events)) :
            LET log == MonitorFile.events
                other == [i \in 1..Len(log) |-> log[f[i]]]
                again == WorkflowQuery(QueryMode(qres.tool),
                                       qres.workflow_name, JsonFile(other))
            IN  {again.result.items[i] : i \in 1..Len(again.result.items)}
                = {qres.result.items[i] : i \in 1..Len(qres.result.items)}

\* C3 as amended: a workflow query returns one summary for every workflow
\* name its filter lets through and none for other names; the summary is
\* built from the first event in the log among the events of that name with
\* the greatest updated_at
C3_SummaryFromGreatestUpdatedAt ==
    QueryAnswered =>
        LET log == MonitorFile.events
            items == qres.result.items
        IN  /\ \A k \in 1..Len(items) :
                    Candidates(log, items[k].name) # {}
            /\ \A name \in WorkflowsOf(log) :
                    Candidates(log, name) # {} =>
                        /\ Cardinality(SummariesFor(items, name)) = 1
                        /\ \E i \in Greatest(log, name) :
                            /\ \A j \in Greatest(log, name) : i <= j
                            /\ \A k \in SummariesFor(items, name) :
                                    items[k] = Summary(RunOf(log[i]))

\* get_workflow_status ran on a log in which the run with the later
\* updated_at comes before an earlier run of the same workflow, and
\* returned the later run's conclusion
C3_Witness ==
    /\ qres.tool = "get_workflow_status"
    /\ qres.result.kind = "list"
    /\ Len(MonitorFile.events) >= 2
    /\ HasRun(MonitorFile.events[1])
    /\ HasRun(MonitorFile.events[2])
    /\ RunOf(MonitorFile.events[1]) = Run(BuildDoc, "success", U2, 2)
    /\ RunOf(MonitorFile.events[2]) = Run(BuildDoc, "failure", U1, 1)
    /\ \E k \in 1..Len(qres.result.items) :
            /\ qres.result.items[k].name = BuildDoc
            /\ qres.result.items[k].conclusion = "success"

\* the file as it was when the store_event of task t started
BeforeAppend(t) == IF pc[t] = "load" THEN ServerFile ELSE loc[t].pre

StoreFailure == {"load_failed", "open_failed", "dump_failed"}

\* C4: a tool that reads the log while a store_event appends to it gets
\* a list of events, never a file it cannot parse
C4_ReaderSeesWholeLog ==
    qres.during => qres.result.kind = "list"

\* C5: a store_event that fails leaves the log as it was before it started
C5_FailedAppendKeepsLog ==
    [][\A t \in Tasks :
        (pc[t] \in {"load", "open", "dump"} /\ reply'.task = t
            /\ reply'.fate \in StoreFailure)
        => fs'[ServerLog] = BeforeAppend(t)]_vars

\* the event task t stored is in the log, at the place its append gave it
Present(t) ==
    LET behind == Len(stored) - slot[t]
        at == Len(ServerFile.events) - behind
    IN  behind < LogCapacity => (at >= 1 /\ ServerFile.events[at] = stored[slot[t]])

BothStored ==
    /\ overlap
    /\ \A t \in Tasks : slot[t] # 0
    /\ ServerFile.valid

C7_ToolsReadIngestedEvent ==
    (/\ qres.tool \in {"get_recent_actions_events", "get_workflow_status",
                       "get_documentation_workflow_status"}
     /\ running = None
     /\ ServerFile.valid
     /\ stored # <<>>
     /\ stored[Len(stored)].event_type = "workflow_run")
    => /\ qres.result.kind = "list"
       /\ qres.result.items # <<>>
       /\ qres.tool = "get_recent_actions_events" =>
            qres.result.items[Len(qres.result.items)] = stored[Len(stored)]
       /\ qres.tool # "get_recent_actions_events" =>
            \E i \in 1..Len(qres.result.items) :
                qres.result.items[i].name =
                    stored[Len(stored)].workflow_run[1].name

\* C8: the success response follows the write of the event, and a failed
\* store_event gives the failure response and no delivery attempt
C8_ReceivedOnlyAfterPersisted ==
    /\ (reply.response.status = "received" /\ reply.fate # "empty") =>
        /\ slot[reply.task] # 0
        /\ ServerFile.valid
        /\ ServerFile.events[Len(ServerFile.events)] =
                stored[slot[reply.task]]
        /\ reply.response = Received(stored[slot[reply.task]].event_type)
    /\ reply.fate \in StoreFailure =>
        /\ reply.response = Http400
        /\ reply.attempts = 0
        /\ slot[reply.task] = 0

\* a write failed after an earlier event had been stored
C8_Witness ==
    /\ reply.fate = "dump_failed"
    /\ reply.response = Http400
    /\ stored # <<>>

\* C9: once the event is stored the response is the success response
\* whatever the sends did, and no alert task ends with an exception
C9_SinkFailuresNeverRaise ==
    /\ (reply.task # None /\ slot[reply.task] # 0) =>
        reply.response = Received(stored[slot[reply.task]].event_type)
    /\ alertLog # "raised"

\* a request whose delivery attempt failed was answered with success
C9_Witness ==
    /\ reply.failed
    /\ reply.attempts > 0
    /\ reply.response.status = "received"

\* C10: a log that exists and does not parse fails every call that loads
\* it, and store_event leaves it as it is
C10_CorruptLogFailsTheCall ==
    [][/\ \A t \in Tasks :
            (pc[t] = "load" /\ pc'[t] # "load"
                /\ ServerFile.exists /\ ~ServerFile.valid)
            => (reply'.task = t /\ reply'.response = Http400 /\ fs' = fs)
       /\ (qres'.tool # "" /\ MonitorFile.exists /\ ~MonitorFile.valid)
            => qres'.result = DecodeFailure]_vars

\* a store_event met a log it could not parse
C10_Witness ==
    /\ reply.fate = "load_failed"
    /\ ServerFile.exists
    /\ ~ServerFile.valid

\* the tools' log as the latest step found it
Log == MonitorFile.events

\* the latest step was a call of one of the three workflow queries
WorkflowQueryRan == QueryMode(qres.tool) # "none"

\* C11: a workflow query answers "no events yet" exactly when the log file
\* is missing or holds an empty list; on a log with events of which its
\* filter lets none through it answers with an empty list
C11_SentinelOnlyWithoutEvents ==
    WorkflowQueryRan =>
        /\ (qres.result = NoEventsYet)
                <=> (~MonitorFile.exists \/ Log = <<>>)
        /\ (/\ MonitorFile.exists
            /\ Log # <<>>
            /\ \A name \in WorkflowsOf(Log) : Candidates(Log, name) = {})
           => qres.result = ResultList(<<>>)

\* get_failed_workflows ran on a log that holds events, none of a failed
\* run, and returned an empty list
C11_Witness ==
    /\ qres.tool = "get_failed_workflows"
    /\ Log # <<>>
    /\ qres.result = ResultList(<<>>)

\* get_workflow_status was called with a workflow name on a log that holds
\* events, none of them of a run of that name
NameNotInLog ==
    /\ qres.tool = "get_workflow_status"
    /\ qres.workflow_name # None
    /\ MonitorFile.exists
    /\ Log # <<>>
    /\ \A i \in 1..Len(Log) :
            HasRun(Log[i]) => RunOf(Log[i]).name # qres.workflow_name

\* C12 as claimed: get_workflow_status(workflow_name) on a log without a
\* run of that name answers "no events yet"
C12_NoMatchGivesSentinel ==
    NameNotInLog => qres.result = NoEventsYet

\* C12 as amended: get_workflow_status(workflow_name) on a log without a
\* run of that name answers with an empty list
C12_NoMatchGivesEmptyList ==
    NameNotInLog => qres.result = ResultList(<<>>)

\* the name was asked for on a log that holds runs of other workflows only
C12_Witness ==
    /\ NameNotInLog
    /\ \E i \in 1..Len(Log) : HasRun(Log[i])
    /\ qres.result.kind = "list"

\* C13: get_recent_actions_events(limit) with a limit of 0 or more
\* returns the last min(limit, length) events of the log, in log order
C13_RecentEventsAtMostLimit ==
    (/\ qres.tool = "get_recent_actions_events"
     /\ qres.limit >= 0
     /\ MonitorFile.valid)
    => /\ qres.result.kind = "list"
       /\ Len(qres.result.items) = Min(qres.limit, Len(Log))
       /\ \A k \in 1..Len(qres.result.items) :
            qres.result.items[k] =
                Log[Len(Log) - Len(qres.result.items) + k]

\* C14: without a log file get_recent_actions_events returns an empty
\* list, store_event does not fail at its load and appends to an empty
\* list, and the file it writes holds that one event
C14_AbsentLogLoadsAsEmpty ==
    /\ (qres.tool = "get_recent_actions_events" /\ ~MonitorFile.exists)
        => qres.result = ResultList(<<>>)
    /\ reply.fate = "load_failed" => ServerFile.exists
    /\ \A t \in Tasks :
        (pc[t] \in {"open", "dump", "notify"} /\ ~loc[t].pre.exists)
        => loc[t].events = loc[t].event
    /\ \A t \in Tasks :
        (pc[t] = "notify" /\ ~loc[t].pre.exists)
        => ServerFile = JsonFile(loc[t].event)

\* a store_event that found no log file has written a log of one event
C14_Witness ==
    \E t \in Tasks :
        /\ pc[t] = "notify"
        /\ ~loc[t].pre.exists
        /\ ServerFile.valid
        /\ Len(ServerFile.events) = 1

\* the positions of the log that hold a failed run of the workflow
FailuresOf(log, name) ==
    {i \in 1..Len(log) :
        /\ HasRun(log[i])
        /\ RunOf(log[i]).name = name
        /\ RunOf(log[i]).conclusion = "failure"}

\* C15: get_failed_workflows returns one summary for every workflow that
\* has a failed run in the log and none for another workflow; the summary
\* is that of a failed run no other failed run of the workflow has a
\* greater updated_at than
C15_FailedWorkflowsOnePerFailedName ==
    (qres.tool = "get_failed_workflows" /\ qres.result.kind = "list") =>
        LET items == qres.result.items
        IN  /\ \A k \in 1..Len(items) : FailuresOf(Log, items[k].name) # {}
            /\ \A name \in WorkflowsOf(Log) :
                FailuresOf(Log, name) # {} =>
                    /\ Cardinality(SummariesFor(items, name)) = 1
                    /\ \A k \in SummariesFor(items, name) :
                        /\ items[k].conclusion = "failure"
                        /\ \E i \in FailuresOf(Log, name) :
                            /\ items[k] = Summary(RunOf(Log[i]))
                            /\ \A j \in FailuresOf(Log, name) :
                                ~StrGreater(RunOf(Log[j]).updated_at,
                                            RunOf(Log[i]).updated_at)

\* get_failed_workflows ran on a log in which a workflow failed and then
\* succeeded, and returned the failed run
C15_Witness ==
    /\ qres.tool = "get_failed_workflows"
    /\ \E i, j \in 1..Len(Log) :
        /\ HasRun(Log[i]) /\ HasRun(Log[j])
        /\ RunOf(Log[i]) = Run(BuildDoc, "failure", U1, 1)
        /\ RunOf(Log[j]) = Run(BuildDoc, "success", U2, 2)
    /\ \E k \in 1..Len(qres.result.items) :
        qres.result.items[k] = Summary(Run(BuildDoc, "failure", U1, 1))

\* C16: get_documentation_workflow_status returns summaries of the three
\* documentation workflows only, one for each of them that has a run in
\* the log, each with a description of the known-workflow table
C16_DocumentationWorkflowsOnly ==
    (qres.tool = "get_documentation_workflow_status"
        /\ qres.result.kind = "list") =>
        LET items == qres.result.items
        IN  /\ \A k \in 1..Len(items) :
                /\ items[k].name \in {BuildDoc, BuildPR, UploadPR}
                /\ items[k].description # "Unknown workflow"
                /\ items[k].description \in
                    {"Main branch documentation build",
                     "Pull request documentation build",
                     "PR documentation upload to Hugging Face"}
            /\ \A name \in WorkflowsOf(Log) \cap {BuildDoc, BuildPR, UploadPR} :
                Cardinality(SummariesFor(items, name)) = 1

\* the documentation query ran on a log with runs of two documentation
\* workflows and of another workflow, and returned two summaries
C16_Witness ==
    /\ qres.tool = "get_documentation_workflow_status"
    /\ WorkflowsOf(Log) = {BuildDoc, BuildPR, Deploy}
    /\ Len(qres.result.items) = 2

\* the first position of the log the latest query scans for the workflow
FirstAt(log, name) ==
    CHOOSE i \in Candidates(log, name) :
        \A j \in Candidates(log, name) : i <= j

\* C17: a workflow query returns one summary for every workflow its
\* filter lets through, in the order in which the workflows first appear
\* among the events it scans
C17_FirstSeenOrder ==
    QueryAnswered =>
        LET items == qres.result.items
        IN  /\ \A k \in 1..Len(items) : Candidates(Log, items[k].name) # {}
            /\ \A name \in WorkflowsOf(Log) :
                Cardinality(SummariesFor(items, name)) =
                    IF Candidates(Log, name) # {} THEN 1 ELSE 0
            /\ \A k, l \in 1..Len(items) :
                k < l => FirstAt(Log, items[k].name)
                            < FirstAt(Log, items[l].name)

\* a workflow whose entry was replaced by a later run, after another
\* workflow had been seen, is still the first of the summaries
C17_Witness ==
    /\ qres.tool = "get_workflow_status"
    /\ Len(Log) = 3
    /\ HasRun(Log[1]) /\ HasRun(Log[2]) /\ HasRun(Log[3])
    /\ RunOf(Log[1]) = Run(BuildDoc, "failure", U1, 1)
    /\ RunOf(Log[2]).name = Deploy
    /\ RunOf(Log[3]) = Run(BuildDoc, "success", U2, 2)
    /\ Len(qres.result.items) = 2
    /\ qres.result.items[1] = Summary(Run(BuildDoc, "success", U2, 2))
    /\ qres.result.items[2].name = Deploy

\* C18: a workflow query made again with the same arguments, no webhook
\* handled in between, returns the result it returned before
C18_RepeatedQuerySameSummaries ==
    [][(/\ QueryMode(qres'.tool) # "none"
        /\ SameCall(prev.call, qres'))
       => qres'.result = prev.call.result]_vars

\* get_workflow_status was called a second time, returned summaries and
\* created alert tasks again
C18_Witness ==
    /\ qres.tool = "get_workflow_status"
    /\ prev.again
    /\ qres.result.kind = "list"
    /\ qres.result.items # <<>>
    /\ alerts # <<>>

\* what a tool returns for a log file and its arguments
ToolResult(tool, limit, workflow_name, file) ==
    CASE tool = "get_recent_actions_events" ->
            GetRecentActionsEvents(file, limit).result
      [] tool = "get_workflow_status" ->
            GetWorkflowStatus(file, workflow_name).result
      [] tool = "get_documentation_workflow_status" ->
            GetDocumentationWorkflowStatus(file).result
      [] tool = "get_failed_workflows" -> GetFailedWorkflows(file).result
      [] OTHER -> NoResult

\* C19: a call of a query tool leaves both log files and the state of the
\* handlers as they were, and its result is the one the log and the
\* arguments determine, whatever was called before
C19_QueriesLeaveTheLog ==
    [][qres'.tool # "" =>
        /\ fs' = fs
        /\ UNCHANGED <<cwd, env, app, served, pc, loc, running, arrivals, preloaded,
                       stored, slot, overlap>>
        /\ qres'.result = ToolResult(qres'.tool, qres'.limit,
                                     qres'.workflow_name, MonitorFile)]_vars

\* get_recent_actions_events returned the last event of a longer log,
\* after another call, and the log is still there
C19_Witness ==
    /\ qres.tool = "get_recent_actions_events"
    /\ qres.limit = 1
    /\ prev.again
    /\ Len(Log) >= 2
    /\ qres.result = ResultList(<<Log[Len(Log)]>>)

\* C20: one call of get_workflow_status or get_failed_workflows creates at
\* most one alert for a workflow and a conclusion
C20_OneAlertPerWorkflowAndConclusion ==
    qres.tool \in {"get_workflow_status", "get_failed_workflows"} =>
        \A i, j \in 1..Len(alerts) :
            (alerts[i].name = alerts[j].name
                /\ alerts[i].status = alerts[j].status) => i = j

\* the positions of the log a query mode scans
Scanned(mode, arg, log) ==
    {i \in 1..Len(log) : Matches(mode, arg, log[i])}

\* the scanned positions whose event is the first of its workflow or has
\* an updated_at greater than that of every scanned event of the workflow
\* before it
RetainedWhenScanned(mode, arg, log) ==
    {i \in Scanned(mode, arg, log) :
        \A j \in Scanned(mode, arg, log) :
            (j < i /\ RunOf(log[j]).name = RunOf(log[i]).name)
            => StrGreater(RunOf(log[i]).updated_at, RunOf(log[j]).updated_at)}

\* name, conclusion and repository of the retained events that concluded
\* with success or failure, in log order
ExpectedAlerts(mode, arg, log) ==
    LET at == SelectSeq([i \in 1..Len(log) |-> i],
                        LAMBDA i :
                            /\ i \in RetainedWhenScanned(mode, arg, log)
                            /\ RunOf(log[i]).conclusion
                                    \in {"success", "failure"})
    IN  [k \in 1..Len(at) |->
            [name |-> RunOf(log[at[k]]).name,
             status |-> RunOf(log[at[k]]).conclusion,
             repo |-> log[at[k]].repository]]

\* C21: a call of get_workflow_status or get_failed_workflows creates one
\* alert, with the workflow name, the conclusion and the repository, for
\* every event that becomes the retained entry of its workflow while the
\* log is scanned and concluded with success or failure, in scan order, and
\* no alert for any other event
C21_AlertForEveryRetainedConclusion ==
    [][qres'.tool \in {"get_workflow_status", "get_failed_workflows"} =>
        alerts' = alerts \o ExpectedAlerts(QueryMode(qres'.tool),
                                           qres'.workflow_name, Log)]_vars

\* get_workflow_status scanned a failed run, a later successful run that
\* replaced it and a run that did not replace it, and created the alerts of
\* the first two
C21_Witness ==
    /\ qres.tool = "get_workflow_status"
    /\ Len(Log) = 3
    /\ HasRun(Log[1]) /\ HasRun(Log[2]) /\ HasRun(Log[3])
    /\ RunOf(Log[1]) = Run(BuildDoc, "failure", U1, 1)
    /\ RunOf(Log[2]) = Run(BuildDoc, "success", U2, 2)
    /\ RunOf(Log[3]) = Run(BuildDoc, "failure", U2, 3)
    /\ alerts = <<[name |-> BuildDoc, status |-> "failure", repo |-> Repo],
                  [name |-> BuildDoc, status |-> "success", repo |-> Repo]>>

\* C22: a workflow query made again with the same arguments, no webhook
\* handled in between, creates the same alerts in the same order as the
\* call before it
C22_RepeatedQuerySameAlerts ==
    [][(/\ QueryMode(qres'.tool) # "none"
        /\ SameCall(prev.call, qres'))
       => /\ prev'.sent = prev.sent
          /\ alerts' = alerts \o prev.sent]_vars

\* get_failed_workflows was called a second time, after the alert tasks of
\* the first call had run, and created the alert tasks again
C22_Witness ==
    /\ qres.tool = "get_failed_workflows"
    /\ prev.again
    /\ prev.sent # <<>>
    /\ alerts = prev.sent

SlackSends == {"send_slack_message", "send_slack_notification",
               "send_slack_alert"}

ErrorStatus ==
    {"Error: SLACK_WEBHOOK_URL not set",
     "Error: SLACK_WEBHOOK_URL environment variable not set",
     "SLACK_WEBHOOK_URL not set.",
     "Error: GMAIL_USER and GMAIL_APP_PASSWORD not set",
     "Error: No recipient email specified"}

C24_EmptyBodyIgnored ==
    [][\A t \in Tasks :
        (pc[t] = "body" /\ reply'.task = t /\ reply'.fate = "empty") =>
            /\ reply'.response.status = "received"
            /\ reply'.response.event_type = "empty"
            /\ pc'[t] = "idle"
            /\ fs' = fs
            /\ stored' = stored
            /\ alerts' = alerts
            /\ sends' = <<>>
            /\ reply'.attempts = 0]_vars

\* a request with an empty body was answered after an event had been
\* stored, and the log still holds that event alone
C24_Witness ==
    /\ reply.fate = "empty"
    /\ reply.response.status = "received"
    /\ ServerFile.valid
    /\ ServerFile.events = stored
    /\ Len(stored) = 1

\* the latest step read a request that passed the signature check and has
\* a body
BodyRead ==
    /\ heard # <<>>
    /\ ~SignatureRejected(env.secret, heard[1].signature)
    /\ heard[1].body.kind # "empty"

DeclaredJson == heard[1].content_type = "application/json"
DeclaredForm == heard[1].content_type = "application/x-www-form-urlencoded"

\* the latest step answered with the error dict of message m
AnsweredError(m) ==
    /\ reply.response.status = "error"
    /\ reply.response.message = m

\* the latest step handed the payload of the request it read to store_event
HandedToStore ==
    \E t \in Tasks :
        /\ pc[t] = "load"
        /\ loc[t].data = heard[1].body.payload
        /\ loc[t].event_type = heard[1].event_type

C26_EveryRequestAnswered ==
    (pc[Handler] # "idle") ~> (pc[Handler] = "idle")

\* C27: send_slack_notification never raises and its status string is
\* fixed by its one attempt: without SLACK_WEBHOOK_URL the "environment
\* variable not set" error and no HTTP call, for HTTP 200 "Message sent
\* successfully", for another status "Failed to send message" with the
\* status, for a timeout "Request timed out"
C27_SlackNotificationStatus ==
    \A k \in 1..Len(sends) :
        sends[k].op = "send_slack_notification" =>
            /\ ~sends[k].raised
            /\ IF ~env.slack
               THEN /\ sends[k].attempts = 0
                    /\ sends[k].text =
                        "Error: SLACK_WEBHOOK_URL environment variable not set"
               ELSE /\ sends[k].attempts = 1
                    /\ sends[k].outcome = "200" =>
                        sends[k].text = "Message sent successfully to Slack"
                    /\ sends[k].outcome = "non2xx" =>
                        sends[k].text = "Failed to send message. Status: "
                    /\ sends[k].outcome = "timeout" =>
                        sends[k].text = "Request timed out. Check your internet connection and try again."
                    /\ sends[k].outcome # "200" =>
                        sends[k].text # "Message sent successfully to Slack"

\* send_slack_notification was called with the URL set, the post timed
\* out and the call returned the timeout status
C27_Witness ==
    /\ Len(sends) = 1
    /\ sends[1].op = "send_slack_notification"
    /\ env.slack
    /\ sends[1].outcome = "timeout"
    /\ sends[1].attempts = 1
    /\ ~sends[1].raised

\* C28: whatever became of the MCP instance, the constructed server has
\* the routes /, /health, /tools, /webhook/github, /mcp and
\* /call/{tool_name}
C28_RoutesRegistered ==
    {"/", "/health", "/tools", "/webhook/github", "/mcp",
     "/call/{tool_name}"} \subseteq app.routes

ParseErrorMessages ==
    {"Invalid JSON", "Invalid JSON in form payload",
     "No payload in form data", "Could not parse payload"}

\* C29: a handler that cannot parse the body returns a dict of status
\* "error" with one of the parse error messages, it does not raise; the
\* step that returns it changes neither log file nor the stored events,
\* creates no alert task and calls no send operation
C29_ParseErrorHasNoEffect ==
    [][\A t \in Tasks :
        (pc[t] = "body" /\ reply'.task = t
            /\ (reply'.fate = "parse_error"
                    \/ reply'.response.status = "error")) =>
            /\ reply'.fate = "parse_error"
            /\ reply'.response.status = "error"
            /\ reply'.response.message \in ParseErrorMessages
            /\ pc'[t] = "idle"
            /\ fs' = fs
            /\ stored' = stored
            /\ alerts' = alerts
            /\ sends' = <<>>
            /\ reply'.attempts = 0]_vars

\* a body that is neither JSON nor a form with a payload was refused after
\* an event had been stored, and the log still holds that event alone
C29_Witness ==
    /\ reply.fate = "parse_error"
    /\ reply.response.message = "Could not parse payload"
    /\ ServerFile.valid
    /\ ServerFile.events = stored
    /\ Len(stored) = 1

\* operation and template of the sends of a step
Dispatched(s) == [k \in 1..Len(s) |-> <<s[k].op, s[k].template>>]

\* the conclusion of the run of a delivery, None without a run
ConclusionOf(data) ==
    IF data.workflow_run = <<>> THEN None
    ELSE data.workflow_run[1].conclusion

\* C30: when process_event_notifications returns, it has called, for a
\* workflow_run event that concluded with failure, send_slack_message
\* once and send_gmail_message once with the failure template; for one that
\* concluded with success, each once with the success template; for
\* another conclusion, nothing; for a push and for a ping,
\* send_slack_message once; for another event type, nothing
C30_SendsByTypeAndConclusion ==
    [][(pc[Handler] = "notify" /\ pc'[Handler] = "idle") =>
        LET type == loc[Handler].event_type
            conclusion == ConclusionOf(loc[Handler].data[1])
        IN  Dispatched(sends') =
                IF type = "workflow_run" /\ conclusion = "failure"
                THEN << <<"send_slack_message", "failure">>,
                        <<"send_gmail_message", "failure">> >>
                ELSE IF type = "workflow_run" /\ conclusion = "success"
                THEN << <<"send_slack_message", "success">>,
                        <<"send_gmail_message", "success">> >>
                ELSE IF type = "push"
                THEN << <<"send_slack_message", "push">> >>
                ELSE IF type = "ping"
                THEN << <<"send_slack_message", "ping">> >>
                ELSE <<>>]_vars

\* a workflow_run event that failed was stored and answered after one
\* Slack send and one Gmail send with the failure template
C30_Witness ==
    /\ reply.fate = "stored"
    /\ reply.response = Received("workflow_run")
    /\ stored # <<>>
    /\ ConclusionOf(stored[Len(stored)].data) = "failure"
    /\ Dispatched(sends) = << <<"send_slack_message", "failure">>,
                              <<"send_gmail_message", "failure">> >>

\* the sends process_event_notifications makes for an event
HandlerSends == {"send_slack_message", "send_gmail_message"}

\* C31: a step that calls send_slack_message or send_gmail_message for an
\* event is a step of a handler whose store_event has returned: the event
\* is the last one of the log file, which the step leaves as it is
C31_StoredBeforeNotified ==
    [][\A k \in 1..Len(sends') :
        (sends'[k].op \in HandlerSends /\ sends'[k].template # "message") =>
            \E t \in Tasks :
                /\ pc[t] # "idle"
                /\ pc'[t] # pc[t]
                /\ slot[t] # 0
                /\ loc[t].event = <<stored[slot[t]]>>
                /\ sends'[k].template \in
                        {stored[slot[t]].event_type,
                         ConclusionOf(stored[slot[t]].data)}
                /\ ServerFile.valid
                /\ ServerFile.events # <<>>
                /\ ServerFile.events[Len(ServerFile.events)] =
                        stored[slot[t]]
                /\ fs' = fs]_vars

\* the second of two requests was answered after a delivery attempt for its
\* event, which is the last of the two events of the log
C31_Witness ==
    /\ reply.fate = "stored"
    /\ sends # <<>>
    /\ sends[1].attempts = 1
    /\ Len(stored) = 2
    /\ slot[reply.task] = 2
    /\ ServerFile.events = stored

\* C32: with GITHUB_WEBHOOK_SECRET set, the handler that reads a request
\* whose x-hub-signature-256 header is missing or is not the digest of the
\* body answers with an HTTP error; the step changes neither log file nor
\* the stored events, creates no alert task and calls no send operation
C32_BadSignatureRejected ==
    [][(heard' # <<>> /\ env.secret /\ heard'[1].signature # "valid") =>
        \E t \in Tasks :
            /\ pc[t] = "body"
            /\ pc'[t] = "idle"
            /\ reply'.task = t
            /\ reply'.response.status = "http400"
            /\ reply'.attempts = 0
            /\ fs' = fs
            /\ stored' = stored
            /\ alerts' = alerts
            /\ sends' = <<>>]_vars

\* a workflow_run delivery without the signature header was refused where
\* Slack and Gmail are configured, and the log holds what it held before
C32_Witness ==
    /\ heard # <<>>
    /\ heard[1].signature = "missing"
    /\ heard[1].event_type = "workflow_run"
    /\ env.secret /\ env.slack /\ env.recipient
    /\ reply.fate = "rejected"
    /\ reply.response = Http400
    /\ ServerFile = JsonFile(Ingested(preloaded))
    /\ sends = <<>>

\* C33: a call of get_documentation_workflow_status creates no alert task
C33_DocumentationQueryNotifiesNothing ==
    qres.tool = "get_documentation_workflow_status" => alerts = <<>>

\* C34: whatever members the workflow_run objects of the stored events
\* have, a workflow query returns a list of summaries or the "no events
\* yet" message
C34_QueriesNeverFail ==
    WorkflowQueryRan => qres.result.kind \in {"list", "message"}

\* the positions of the events the query scans for the workflow of the
\* summary item that carry the updated_at of item
TiedWith(log, item) ==
    {i \in Candidates(log, item.name) :
        RunOf(log[i]).updated_at = item.updated_at}

\* C35: among the events a workflow query scans for one workflow name that
\* carry the updated_at of the summary it returns, the summary is built
\* from the one that comes first in the log
C35_EqualUpdatedAtKeepsEarlier ==
    QueryAnswered =>
        \A k \in 1..Len(qres.result.items) :
            LET ties == TiedWith(MonitorFile.events, qres.result.items[k])
            IN  /\ ties # {}
                /\ \A i \in ties :
                        (\A j \in ties : i <= j) =>
                            qres.result.items[k] =
                                Summary(RunOf(MonitorFile.events[i]))

\* get_workflow_status ran on a log that holds the failed run 3 before the
\* successful run 2 of the same workflow, both with the same updated_at, and
\* returned the summary of run 3
C35_Witness ==
    /\ qres.tool = "get_workflow_status"
    /\ qres.result.kind = "list"
    /\ Len(MonitorFile.events) = 2
    /\ HasRun(MonitorFile.events[1])
    /\ HasRun(MonitorFile.events[2])
    /\ RunOf(MonitorFile.events[1]) = Run(BuildDoc, "failure", U2, 3)
    /\ RunOf(MonitorFile.events[2]) = Run(BuildDoc, "success", U2, 2)
    /\ qres.result.items = <<Summary(Run(BuildDoc, "failure", U2, 3))>>

\* the paths verify_api_key lets through without a key
Exempt == PublicEndpoints \cup {"/webhook/github", "/mcp"}

\* C36: the route handler of a request to a path that is neither a public
\* endpoint nor /webhook/github nor /mcp runs only when MCP_API_KEY is set
\* and the x-api-key header of the request is equal to it
C36_HandlerBehindApiKey ==
    (served.reached /\ served.path \notin Exempt) =>
        /\ env.api_key \notin {None, ""}
        /\ served.api_key = env.api_key

\* a request to /tools that carried the key the server is configured with
\* reached its handler
C36_Witness ==
    /\ served.path = "/tools"
    /\ served.reached
    /\ served.outcome = "call_next"
    /\ env.api_key = "k1"
    /\ served.api_key = "k1"

====
